---- MODULE Spec2Model ----
(***************************************************************************)
(* Text -> directed word graph analyzer (src/main.py).                     *)
(*                                                                         *)
(* The model covers the graph held by TextGraphApp (self.G), the handlers  *)
(* that rebuild and query it (load_file, func_bridge, func_shortest_path,  *)
(* func_pagerank) and the random-walk dialog with its background threads   *)
(* (func_random_walk: start_walk, stop_walk, walk_thread).                 *)
(***************************************************************************)
EXTENDS Integers, Sequences, FiniteSets, TLC

VARIABLES
    G,          \* self.G: [nodes |-> set of words, w |-> edge -> weight]
    hl,         \* the highlight: [edges |-> self._hl_edges, nodes |-> self._hl_nodes]
    load,       \* load_file on the main thread: [pc, words, i, n]
    out,        \* what the last query handler showed (messagebox) or raised
    stopEvent,  \* self._walk_stop_event: "none" (None), or the Event "clear" or "set"
    walk,       \* the walk threads, one record per started thread
    disk,       \* the lines of the file at save_path
    lastOpen,   \* the thread that opened save_path most recently (0: none)
    pr          \* pagerank_with_dangling in progress: [pc, num, den, iter, by]

vars == <<G, hl, load, out, stopEvent, walk, disk, lastOpen, pr>>

(***************************************************************************)
(* Bounds of the model.                                                    *)
(***************************************************************************)
Words == {"a", "b", "c"}    \* the tokens a loaded text may hold
Unknown == "zz"             \* a word that no loaded text holds
MaxLen == 5                 \* longest token stream loaded (LoadSpec)
QueryLen == 9               \* longest token stream the queries are run on
MaxLoads == 2               \* loads per run
WalkWords == {"a", "b"}     \* the tokens of the texts loaded around a walk
WalkLen == 3                \* longest token stream loaded around a walk
MaxWalks == 2               \* walk threads started per run
FixedLen == 4               \* longest token stream behind the graph of FixedSpec
FixedWalks == 1             \* walk threads started per run of FixedSpec
MaxIter == 3                \* stands for max_iter (100) of pagerank_with_dangling

StreamsOver(W, n) == UNION {[1..k -> W] : k \in 0..n}

(***************************************************************************)
(* The graph: networkx.DiGraph as main.py uses it.                         *)
(***************************************************************************)
NoEdges == [e \in {} |-> 0]
EmptyGraph == [nodes |-> {}, w |-> NoEdges]
NoHighlight == [edges |-> {}, nodes |-> {}]

HasNode(g, u) == u \in g.nodes
HasEdge(g, u, v) == <<u, v>> \in DOMAIN g.w
Successors(g, u) == {v \in g.nodes : HasEdge(g, u, v)}
Predecessors(g, u) == {v \in g.nodes : HasEdge(g, v, u)}

\* self.G.clear() that forgets the edges and keeps the nodes
ClearKeepNodes(g) == [nodes |-> g.nodes, w |-> NoEdges]

\* self.G.clear()
Clear(g) == EmptyGraph

\* self.G.add_edge(a, b, weight = old + 1 if the edge exists, else 1)
AddEdge(g, a, b) ==
    [nodes |-> g.nodes \cup {a, b},
     w |-> IF HasEdge(g, a, b)
           THEN [g.w EXCEPT ![<<a, b>>] = @ + 1]
           ELSE (<<a, b>> :> 1) @@ g.w]

\* for a, b in zip(words, words[1:]): if a and b: add_edge(...), from pair i on
RECURSIVE AddPairs(_, _, _)
AddPairs(g, ws, i) ==
    IF i >= Len(ws) THEN g
    ELSE AddPairs(IF ws[i] # "" /\ ws[i + 1] # ""
                  THEN AddEdge(g, ws[i], ws[i + 1]) ELSE g, ws, i + 1)

\* the graph load_file leaves for the token stream ws
BuildGraph(ws) == AddPairs(Clear(EmptyGraph), ws, 1)

(***************************************************************************)
(* load_file.  The handler runs on the main thread; the walk threads run   *)
(* beside it, so the rebuild is modelled one graph call at a time.         *)
(***************************************************************************)
IdleLoad == [pc |-> "idle", words |-> <<>>, i |-> 1, n |-> 0]
IdlePr == [pc |-> "idle", num |-> <<>>, den |-> 1, iter |-> 0, by |-> ""]
NoOut == [kind |-> "none"]

WalkIds == 1..MaxWalks
\* a walk thread: pc, the locals node, visited and edges of walk_thread, buf
\* (what it wrote to its file object and is not yet in the file), reason (how
\* it ended), and history: g0 (the edges of the graph when it was started),
\* atStop (visited when stop_walk was called on it)
NoWalk ==
    [pc |-> "none", node |-> "", visited |-> <<>>, edges |-> {},
     reason |-> "", buf |-> <<>>, g0 |-> {}, atStop |-> <<>>]

MainIdle == load.pc = "idle" /\ pr.pc \in {"idle", "done"}

\* lines 135-140: the file is read and tokenized into ws (tokenize yields
\* non-empty lowercase words), then self.G.clear()
LoadClear(ws) ==
    /\ MainIdle
    /\ load.n < MaxLoads
    /\ G' = Clear(G)
    /\ load' = [pc |-> "adding", words |-> ws, i |-> 1, n |-> load.n + 1]
    /\ UNCHANGED <<hl, out, stopEvent, walk, disk, lastOpen, pr>>

\* lines 141-146: one turn of the loop over zip(words, words[1:])
LoadAdd ==
    /\ load.pc = "adding"
    /\ load.i < Len(load.words)
    /\ G' = IF load.words[load.i] # "" /\ load.words[load.i + 1] # ""
            THEN AddEdge(G, load.words[load.i], load.words[load.i + 1])
            ELSE G
    /\ load' = [load EXCEPT !.i = @ + 1]
    /\ UNCHANGED <<hl, out, stopEvent, walk, disk, lastOpen, pr>>

\* lines 148-150: the highlight is dropped and the graph drawn
LoadEnd ==
    /\ load.pc = "adding"
    /\ load.i >= Len(load.words)
    /\ hl' = NoHighlight
    /\ load' = [load EXCEPT !.pc = "idle"]
    /\ UNCHANGED <<G, out, stopEvent, walk, disk, lastOpen, pr>>

Init ==
    /\ G = EmptyGraph
    /\ hl = NoHighlight
    /\ load = IdleLoad
    /\ out = NoOut
    /\ stopEvent = "none"
    /\ walk = [t \in WalkIds |-> NoWalk]
    /\ disk = <<>>
    /\ lastOpen = 0
    /\ pr = IdlePr

(***************************************************************************)
(* LoadSpec: any sequence of loads of token streams over Words.            *)
(***************************************************************************)
LoadNext ==
    \/ \E ws \in StreamsOver(Words, MaxLen) : LoadClear(ws)
    \/ LoadAdd
    \/ LoadEnd

LoadSpec == Init /\ [][LoadNext]_vars

\* the places of ws where a is immediately followed by b
Occurrences(ws, a, b) == {i \in 1..(Len(ws) - 1) : ws[i] = a /\ ws[i + 1] = b}
AdjacentPairs(ws) == {<<ws[i], ws[i + 1]>> : i \in 1..(Len(ws) - 1)}

RECURSIVE SumWeights(_, _)
SumWeights(w, es) ==
    IF es = {} THEN 0
    ELSE LET e == CHOOSE x \in es : TRUE IN w[e] + SumWeights(w, es \ {e})

TotalWeight(g) == SumWeights(g.w, DOMAIN g.w)

GraphOfStream(ws) ==
    /\ DOMAIN G.w = AdjacentPairs(ws)
    /\ \A e \in DOMAIN G.w :
          G.w[e] = Cardinality(Occurrences(ws, e[1], e[2])) /\ G.w[e] >= 1
    /\ G.nodes = {e[1] : e \in DOMAIN G.w} \cup {e[2] : e \in DOMAIN G.w}

\* C6 as stated: after any sequence of loads the graph is that of the most
\* recently loaded token stream alone, and its weights sum to len(tokens) - 1.
C6_AsStated ==
    (load.pc = "idle" /\ load.n > 0) =>
        /\ GraphOfStream(load.words)
        /\ TotalWeight(G) = Len(load.words) - 1

\* C6 (amended): after any sequence of loads the graph is that of the most
\* recently loaded token stream alone: an edge a->b exists iff a is immediately
\* followed by b in it, with the number of such places as weight (>= 1), the
\* nodes are the edge endpoints, and the weights sum to len(tokens) - 1 for a
\* stream of at least one token and to 0 for the empty stream.
C6_GraphOfLastLoad ==
    (load.pc = "idle" /\ load.n > 0) =>
        /\ GraphOfStream(load.words)
        /\ TotalWeight(G) = IF Len(load.words) >= 1 THEN Len(load.words) - 1 ELSE 0

\* a second load has replaced a graph, and the new one has a repeated pair
C6_Witness ==
    /\ load.pc = "idle"
    /\ load.n = 2
    /\ Len(load.words) >= 3
    /\ \E e \in DOMAIN G.w : G.w[e] >= 2

(***************************************************************************)
(* The queries: bridge_words, func_bridge, func_shortest_path.             *)
(***************************************************************************)
\* what the user may type into a word prompt: the words of the text, the
\* first with a capital, and a word the text does not hold
Typed == {"A", "b", "c", Unknown}

\* str.lower() on what may be typed
Lower(s) == IF s = "A" THEN "a" ELSE s

\* list(S) for a set S, in the order the adjacency dict iterates
RECURSIVE ListOf(_)
ListOf(S) ==
    IF S = {} THEN <<>>
    ELSE LET x == CHOOSE y \in S : TRUE IN <<x>> \o ListOf(S \ {x})

Range(s) == {s[i] : i \in 1..Len(s)}

\* the edge test of bridge_words with the edge taken the wrong way round
BridgesBackwards(g, mid, w2) == HasEdge(g, w2, mid)

\* G.has_edge(mid, w2) in bridge_words
Bridges(g, mid, w2) == HasEdge(g, mid, w2)

\* bridge_words(G, w1, w2)
BridgeWords(g, w1, w2) ==
    IF ~HasNode(g, w1) \/ ~HasNode(g, w2) THEN <<>>
    ELSE SelectSeq(ListOf(Successors(g, w1)), LAMBDA mid : Bridges(g, mid, w2))

\* func_bridge
FuncBridge(t1, t2) ==
    /\ MainIdle
    /\ G.nodes # {}
    /\ t1 # "" /\ t2 # ""
    /\ out' = [kind |-> "bridges", op |-> "bridge", w1 |-> Lower(t1),
               w2 |-> Lower(t2), list |-> BridgeWords(G, Lower(t1), Lower(t2))]
    /\ UNCHANGED <<G, hl, load, stopEvent, walk, disk, lastOpen, pr>>

\* one round of Dijkstra's algorithm: settle the closest open node, relax its edges
RECURSIVE Dijkstra(_, _, _, _)
Dijkstra(g, dist, prev, settled) ==
    LET open == DOMAIN dist \ settled IN
    IF open = {} THEN [dist |-> dist, prev |-> prev]
    ELSE LET u == CHOOSE x \in open : \A y \in open : dist[x] <= dist[y]
             succ == Successors(g, u)
             better(v) == /\ v \in succ
                          /\ v \notin settled
                          /\ (v \notin DOMAIN dist \/ dist[u] + g.w[<<u, v>>] < dist[v])
             seen == DOMAIN dist \cup succ
         IN Dijkstra(g,
                [v \in seen |-> IF better(v) THEN dist[u] + g.w[<<u, v>>] ELSE dist[v]],
                [v \in seen |-> IF better(v) THEN u ELSE prev[v]],
                settled \cup {u})

RECURSIVE PathTo(_, _, _)
PathTo(prev, s, v) == IF v = s THEN <<s>> ELSE Append(PathTo(prev, s, prev[v]), v)

\* nx.shortest_path(G, s, t, weight="weight"): the path, or the exception raised
ShortestPath(g, s, t) ==
    IF ~HasNode(g, s) \/ ~HasNode(g, t) THEN [kind |-> "NodeNotFound"]
    ELSE LET r == Dijkstra(g, (s :> 0), (s :> s), {}) IN
         IF t \notin DOMAIN r.dist THEN [kind |-> "NetworkXNoPath"]
         ELSE [kind |-> "path", path |-> PathTo(r.prev, s, t)]

\* set(zip(path, path[1:]))
PathEdges(path) == {<<path[i], path[i + 1]>> : i \in 1..(Len(path) - 1)}

\* the length taken as the number of edges of the path
CountEdges(g, es) == Cardinality(es)

\* sum(self.G[u][v]["weight"] for u, v in path_edges)
PathLength(g, es) == SumWeights(g.w, es)

\* the node test that forgets the target
KnownSource(g, w1, w2) == HasNode(g, w1)

\* not (w1 not in self.G or w2 not in self.G)
KnownNodes(g, w1, w2) == HasNode(g, w1) /\ HasNode(g, w2)

\* func_shortest_path
FuncShortestPath(t1, t2) ==
    /\ MainIdle
    /\ G.nodes # {}
    /\ t1 # "" /\ t2 # ""
    /\ LET w1 == Lower(t1)
           w2 == Lower(t2)
           q == [op |-> "sp", w1 |-> w1, w2 |-> w2]
       IN IF ~KnownNodes(G, w1, w2)
          THEN /\ out' = [kind |-> "unknown"] @@ q
               /\ hl' = hl
          ELSE LET r == ShortestPath(G, w1, w2) IN
               IF r.kind = "path"
               THEN /\ hl' = [edges |-> PathEdges(r.path), nodes |-> Range(r.path)]
                    /\ out' = [kind |-> "path", path |-> r.path,
                               cost |-> PathLength(G, PathEdges(r.path))] @@ q
               ELSE IF r.kind = "NetworkXNoPath"
               THEN /\ out' = [kind |-> "unreachable"] @@ q
                    /\ hl' = hl
               ELSE /\ out' = [kind |-> "raised", exc |-> r.kind] @@ q
                    /\ hl' = hl
    /\ UNCHANGED <<G, load, stopEvent, walk, disk, lastOpen, pr>>

(***************************************************************************)
(* BridgeSpec, PathSpec: the queries on the graph of any token stream.     *)
(***************************************************************************)
\* the words of ws make their first appearance in the order of WordOrder:
\* every token stream is one of these with its words renamed
WordOrder == <<"a", "b", "c">>
FirstSeenInOrder(ws) ==
    \A i \in 1..Len(ws) : \A k \in 2..Len(WordOrder) :
        ws[i] = WordOrder[k] => \E j \in 1..(i - 1) : ws[j] = WordOrder[k - 1]

QueryInit ==
    /\ \E ws \in {x \in StreamsOver(Words, QueryLen) : FirstSeenInOrder(x)} :
          G = BuildGraph(ws)
    /\ load = IdleLoad
    /\ hl = NoHighlight
    /\ out = NoOut
    /\ stopEvent = "none"
    /\ walk = [t \in WalkIds |-> NoWalk]
    /\ disk = <<>>
    /\ lastOpen = 0
    /\ pr = IdlePr

BridgeNext == \E t1, t2 \in Typed : FuncBridge(t1, t2)

BridgeSpec == QueryInit /\ [][BridgeNext]_vars

PathNext == \E t1, t2 \in Typed : FuncShortestPath(t1, t2)

PathSpec == QueryInit /\ [][PathNext]_vars

\* the directed paths of g without a repeated node, as node sequences
SimplePaths(g) ==
    {p \in UNION {[1..k -> g.nodes] : k \in 1..Cardinality(g.nodes)} :
        /\ \A i, j \in 1..Len(p) : i # j => p[i] # p[j]
        /\ \A i \in 1..(Len(p) - 1) : HasEdge(g, p[i], p[i + 1])}

PathsBetween(g, s, t) == {p \in SimplePaths(g) : p[1] = s /\ p[Len(p)] = t}

RECURSIVE CostAlong(_, _, _)
CostAlong(g, p, i) ==
    IF i >= Len(p) THEN 0 ELSE g.w[<<p[i], p[i + 1]>>] + CostAlong(g, p, i + 1)

\* C3: for nodes w1, w2 with w2 reachable from w1 the query shows a path from
\* w1 to w2 along edges of the graph, with the sum of its edge weights as cost,
\* and no directed path from w1 to w2 costs less; for w1 = w2 it is the
\* single-node path with cost 0.
C3_ShortestPath ==
    (/\ out.kind # "none"
     /\ out.op = "sp"
     /\ HasNode(G, out.w1) /\ HasNode(G, out.w2)
     /\ PathsBetween(G, out.w1, out.w2) # {}) =>
        /\ out.kind = "path"
        /\ out.path[1] = out.w1
        /\ out.path[Len(out.path)] = out.w2
        /\ \A i \in 1..(Len(out.path) - 1) : HasEdge(G, out.path[i], out.path[i + 1])
        /\ out.cost = CostAlong(G, out.path, 1)
        /\ \A p \in PathsBetween(G, out.w1, out.w2) : out.cost <= CostAlong(G, p, 1)
        /\ (out.w1 = out.w2 => out.path = <<out.w1>> /\ out.cost = 0)

\* a path of two edges was shown that costs less than the direct edge
C3_Witness ==
    /\ out.kind = "path"
    /\ Len(out.path) = 3
    /\ HasEdge(G, out.w1, out.w2)
    /\ out.cost < G.w[<<out.w1, out.w2>>]

\* C5: bridge_words is empty when w1 or w2 is no node, and else holds exactly
\* the nodes m with edges w1->m and m->w2, each once.
C5_BridgeWords ==
    (out.kind = "bridges") =>
        /\ (~HasNode(G, out.w1) \/ ~HasNode(G, out.w2)) => out.list = <<>>
        /\ Range(out.list) =
              {m \in G.nodes : HasEdge(G, out.w1, m) /\ HasEdge(G, m, out.w2)}
        /\ \A i, j \in 1..Len(out.list) : i # j => out.list[i] # out.list[j]

\* two bridge words were found, and some node with edges the other way
\* round (m->w1, w2->m) is not among them
C5_Witness ==
    /\ out.kind = "bridges"
    /\ Len(out.list) >= 2
    /\ \E m \in G.nodes :
          /\ HasEdge(G, m, out.w1) /\ HasEdge(G, out.w2, m)
          /\ m \notin Range(out.list)

NotFound(o) == o.kind \in {"unknown", "unreachable"}

\* C4: the shortest-path query never raises; a word that is no node gives the
\* unknown-node outcome, two nodes without a directed path give the
\* unreachable outcome, a different one; neither changes the graph or the
\* highlight.
C4_NotFound ==
    /\ [](out.kind # "none" =>
            /\ out.kind # "raised"
            /\ (~HasNode(G, out.w1) \/ ~HasNode(G, out.w2)) => out.kind = "unknown"
            /\ (/\ HasNode(G, out.w1) /\ HasNode(G, out.w2)
                /\ PathsBetween(G, out.w1, out.w2) = {}) => out.kind = "unreachable"
            /\ out.kind = "unknown" =>
                  (~HasNode(G, out.w1) \/ ~HasNode(G, out.w2)))
    /\ [][NotFound(out') => (G' = G /\ hl' = hl)]_vars

\* both not-found outcomes have been shown while a path was highlighted
C4_WitnessUnknown ==
    /\ out.kind = "unknown"
    /\ hl.edges # {}
    /\ HasNode(G, out.w1)

C4_Witness ==
    /\ out.kind = "unreachable"
    /\ hl.edges # {}
    /\ PathsBetween(G, out.w2, out.w1) # {}

(***************************************************************************)
(* pagerank_with_dangling.  The ranks are kept as exact fractions          *)
(* num[u] / den over one denominator, so that a loss of rank mass cannot   *)
(* hide in rounding.                                                       *)
(***************************************************************************)
DNum == 17      \* d = 0.85 = DNum / DDen
DDen == 20

RECURSIVE Gcd(_, _)
Gcd(a, b) == IF b = 0 THEN a ELSE Gcd(b, a % b)
Lcm(a, b) == (a * b) \div Gcd(a, b)

RECURSIVE LcmOf(_)
LcmOf(S) ==
    IF S = {} THEN 1
    ELSE LET x == CHOOSE y \in S : TRUE IN Lcm(x, LcmOf(S \ {x}))

RECURSIVE SumOver(_, _)
SumOver(f, S) ==
    IF S = {} THEN 0
    ELSE LET x == CHOOSE y \in S : TRUE IN f[x] + SumOver(f, S \ {x})

Abs(x) == IF x < 0 THEN 0 - x ELSE x

OutDegree(g, u) == Cardinality(Successors(g, u))
DanglingNodes(g) == {u \in g.nodes : OutDegree(g, u) = 0}

\* the dangling mass dropped instead of pooled
NoDanglingMass(g, num) == 0

\* sum(prev[u] for u in nodes if len(succ[u]) == 0), as a numerator over den
DanglingMass(g, num) == SumOver(num, DanglingNodes(g))

\* the factor by which one iteration refines the denominator
Refine(g) ==
    DDen * LcmOf({Cardinality(g.nodes)} \cup
                 {OutDegree(g, v) : v \in g.nodes \ DanglingNodes(g)})

\* lines 58-60: pr[u] = (1 - d) / N + d * (dangling / N + sum(prev[v] / len(succ[v])))
\* as a numerator over den * Refine(g)
NewRank(g, num, den, u) ==
    LET N == Cardinality(g.nodes)
        M == Refine(g) \div DDen
        share == [v \in Predecessors(g, u) |-> num[v] * (M \div OutDegree(g, v))]
    IN (DDen - DNum) * den * (M \div N)
       + DNum * (DanglingMass(g, num) * (M \div N) + SumOver(share, Predecessors(g, u)))

\* line 61: sum(abs(pr[u] - prev[u])) < tol, with tol = 1e-10.  Every
\* denominator the model reaches is below 2^31 < 1e10, so a total change of one
\* unit of the numerator is already above tol: the test is for no change.
BelowTol(diff, den) == diff = 0

\* lines 48-53
PRBegin ==
    /\ pr.pc = "idle"
    /\ pr' = IF G.nodes = {}
             THEN [pc |-> "done", num |-> <<>>, den |-> 1, iter |-> 0, by |-> "empty"]
             ELSE [pc |-> "iter", num |-> [u \in G.nodes |-> 1],
                   den |-> Cardinality(G.nodes), iter |-> 0, by |-> ""]
    /\ UNCHANGED <<G, hl, load, out, stopEvent, walk, disk, lastOpen>>

\* lines 55-62: one turn of the loop for _ in range(max_iter)
PRIterate ==
    /\ pr.pc = "iter"
    /\ LET new == [u \in G.nodes |-> NewRank(G, pr.num, pr.den, u)]
           den == pr.den * Refine(G)
           old == [u \in G.nodes |-> Abs(new[u] - pr.num[u] * Refine(G))]
           diff == SumOver(old, G.nodes)
       IN pr' = [num |-> new, den |-> den, iter |-> pr.iter + 1,
                 pc |-> IF BelowTol(diff, den) \/ pr.iter + 1 = MaxIter
                        THEN "done" ELSE "iter",
                 by |-> IF BelowTol(diff, den) THEN "tol"
                        ELSE IF pr.iter + 1 = MaxIter THEN "max_iter" ELSE ""]
    /\ UNCHANGED <<G, hl, load, out, stopEvent, walk, disk, lastOpen>>

(***************************************************************************)
(* PRSpec: pagerank_with_dangling on any graph over Words.                 *)
(***************************************************************************)
GraphsOver(W) ==
    UNION {{[nodes |-> ns, w |-> [e \in es |-> 1]] : es \in SUBSET (ns \X ns)} :
              ns \in SUBSET W}

PRInit ==
    /\ G \in GraphsOver(Words)
    /\ hl = NoHighlight
    /\ load = IdleLoad
    /\ out = NoOut
    /\ stopEvent = "none"
    /\ walk = [t \in WalkIds |-> NoWalk]
    /\ disk = <<>>
    /\ lastOpen = 0
    /\ pr = IdlePr

PRNext == PRBegin \/ PRIterate

PRSpec == PRInit /\ [][PRNext]_vars

\* C7: on a non-empty graph, from the first vector on and after every
\* iteration, so also in the vector returned, every rank is >= 0 and the
\* ranks sum to 1.
C7_RanksSumToOne ==
    (pr.pc \in {"iter", "done"} /\ G.nodes # {}) =>
        /\ DOMAIN pr.num = G.nodes
        /\ \A u \in G.nodes : pr.num[u] >= 0
        /\ SumOver(pr.num, G.nodes) = pr.den

\* the iteration ran to max_iter on a graph with a dangling node and an edge
C7_Witness ==
    /\ pr.pc = "done"
    /\ pr.by = "max_iter"
    /\ DanglingNodes(G) # {}
    /\ DOMAIN G.w # {}

\* the iteration stopped by tolerance on a graph without any edge
C7_WitnessNoEdges ==
    /\ pr.pc = "done"
    /\ pr.by = "tol"
    /\ Cardinality(G.nodes) >= 2
    /\ DOMAIN G.w = {}

(***************************************************************************)
(* func_random_walk: the dialog, start_walk, stop_walk and walk_thread.    *)
(* A thread's file object buffers what it writes (8 KiB, more than any     *)
(* trace here) until the with block closes the file; every thread opens    *)
(* save_path for itself, so its buffer lands at offset 0 of the file.      *)
(***************************************************************************)
\* lines 361-378: the dialog is opened and a fresh Event made (the model
\* opens the dialog once)
FuncRandomWalk ==
    /\ MainIdle
    /\ G.nodes # {}
    /\ stopEvent = "none"
    /\ stopEvent' = "clear"
    /\ UNCHANGED <<G, hl, load, out, walk, disk, lastOpen, pr>>

\* start_walk: the Event is cleared and a new thread started, the next of at
\* most limit threads
StartWalk(limit) ==
    /\ MainIdle
    /\ stopEvent # "none"
    /\ \E t \in 1..limit :
          /\ walk[t].pc = "none"
          /\ \A s \in 1..(t - 1) : walk[s].pc # "none"
          /\ walk' = [walk EXCEPT ![t] =
                         [NoWalk EXCEPT !.pc = "begin", !.g0 = DOMAIN G.w]]
    /\ stopEvent' = "clear"
    /\ UNCHANGED <<G, hl, load, out, disk, lastOpen, pr>>

\* stop_walk: the Event is set
StopWalk ==
    /\ MainIdle
    /\ stopEvent # "none"
    /\ stopEvent' = "set"
    /\ walk' = [t \in WalkIds |->
                   IF walk[t].pc = "loop" /\ walk[t].atStop = <<>>
                   THEN [walk[t] EXCEPT !.atStop = walk[t].visited]
                   ELSE walk[t]]
    /\ UNCHANGED <<G, hl, load, out, disk, lastOpen, pr>>

\* the file after a file object at offset 0 has written lines into it
WriteAtStart(file, lines) ==
    lines \o SubSeq(file, Len(lines) + 1, Len(file))

\* the edge test with the pair the wrong way round
TraversedBackwards(edges, node, next) == <<next, node>> \in edges

\* the edge test that never finds the edge
NeverTraversed(edges, node, next) == FALSE

\* (node, next_node) in edges
Traversed(edges, node, next) == <<node, next>> \in edges

\* the thread leaves the with block: its file object is closed
Finish(t, why) ==
    /\ walk' = [walk EXCEPT ![t].pc = "done", ![t].reason = why, ![t].buf = <<>>]
    /\ disk' = WriteAtStart(disk, walk[t].buf)
    /\ UNCHANGED lastOpen

\* lines 390-393: the start node is drawn, save_path opened and the node written
WalkBegin(t) ==
    /\ walk[t].pc = "begin"
    /\ IF G.nodes = {}
       THEN \* random.choice([]) raises IndexError: the thread ends
            /\ walk' = [walk EXCEPT ![t].pc = "done", ![t].reason = "error"]
            /\ UNCHANGED <<disk, lastOpen>>
       ELSE \E n \in G.nodes :
            /\ walk' = [walk EXCEPT ![t].pc = "loop", ![t].node = n,
                                    ![t].visited = <<n>>, ![t].buf = <<n>>]
            /\ disk' = <<>>
            /\ lastOpen' = t
    /\ UNCHANGED <<G, hl, load, out, stopEvent, pr>>

\* lines 394-404: one turn of the while loop, or the way out of it
WalkStep(t) ==
    /\ walk[t].pc = "loop"
    /\ LET node == walk[t].node IN
       IF stopEvent = "set" THEN Finish(t, "cancelled")
       ELSE IF ~HasNode(G, node)
       THEN Finish(t, "error")     \* G.successors raises NetworkXError
       ELSE IF Successors(G, node) = {} THEN Finish(t, "deadend")
       ELSE \E next \in Successors(G, node) :
            IF Traversed(walk[t].edges, node, next) THEN Finish(t, "cycle")
            ELSE /\ walk' = [walk EXCEPT
                        ![t].edges = @ \cup {<<node, next>>},
                        ![t].node = next,
                        ![t].visited = Append(@, next),
                        ![t].buf = Append(@, next)]
                 /\ UNCHANGED <<disk, lastOpen>>
    /\ UNCHANGED <<G, hl, load, out, stopEvent, pr>>

(***************************************************************************)
(* Spec: the application from its construction, with loads, the walk       *)
(* dialog and its threads.                                                 *)
(***************************************************************************)
Next ==
    \/ \E ws \in StreamsOver(WalkWords, WalkLen) : LoadClear(ws)
    \/ LoadAdd
    \/ LoadEnd
    \/ FuncRandomWalk
    \/ StartWalk(MaxWalks)
    \/ StopWalk
    \/ \E t \in WalkIds : WalkBegin(t)
    \/ \E t \in WalkIds : WalkStep(t)

Spec == Init /\ [][Next]_vars

StepsOf(v) == {<<v[i], v[i + 1]>> : i \in 1..(Len(v) - 1)}

\* C2 as stated: a walk that was running when stop_walk was called records no
\* further node, and keeps what it had recorded.
C2_StopsAfterStop ==
    \A t \in WalkIds : walk[t].atStop # <<>> => walk[t].visited = walk[t].atStop

\* what save_path holds for thread t: the file, with t's buffer written out
FileView(t) == IF walk[t].pc = "loop" THEN WriteAtStart(disk, walk[t].buf) ELSE disk

\* C8 as stated: once a walk has opened the save file, its lines are exactly
\* the nodes a walk has visited so far, in visit order, whatever start and
\* stop requests were made.
C8_FileIsTrace ==
    lastOpen # 0 =>
        \E t \in WalkIds :
            /\ walk[t].visited # <<>>
            /\ FileView(t) = walk[t].visited

\* C9 as stated: every step a walk records is an edge of the graph as it was
\* when the walk was started, also when load_file rebuilds the graph meanwhile.
C9_ConsistentView ==
    \A t \in WalkIds : StepsOf(walk[t].visited) \subseteq walk[t].g0

(***************************************************************************)
(* FixedSpec: walks on the graph of any token stream, with no rebuild and  *)
(* no stop request.  The threads are scheduled fairly.                     *)
(***************************************************************************)
FixedInit ==
    /\ \E ws \in StreamsOver(Words, FixedLen) :
          /\ G = BuildGraph(ws)
          /\ G.nodes # {}
    /\ hl = NoHighlight
    /\ load = IdleLoad
    /\ out = NoOut
    /\ stopEvent = "clear"
    /\ walk = [t \in WalkIds |-> NoWalk]
    /\ disk = <<>>
    /\ lastOpen = 0
    /\ pr = IdlePr

FixedNext ==
    \/ StartWalk(FixedWalks)
    \/ \E t \in WalkIds : WalkBegin(t)
    \/ \E t \in WalkIds : WalkStep(t)

FixedSpec ==
    /\ FixedInit
    /\ [][FixedNext]_vars
    /\ \A t \in WalkIds : WF_vars(WalkBegin(t)) /\ WF_vars(WalkStep(t))

\* C1: no walk records the same ordered pair (current, next) twice.
C1_NoRepeatedPair ==
    \A t \in WalkIds :
        \A i, j \in 1..(Len(walk[t].visited) - 1) :
            i # j => <<walk[t].visited[i], walk[t].visited[i + 1]>>
                        # <<walk[t].visited[j], walk[t].visited[j + 1]>>

\* a walk came back to a node it had visited, went on, and ended when it
\* drew an edge it had taken
C1_Witness ==
    \E t \in WalkIds :
        /\ walk[t].pc = "done"
        /\ walk[t].reason = "cycle"
        /\ Len(walk[t].visited) >= 4
        /\ \E i, j \in 1..(Len(walk[t].visited) - 1) :
              i # j /\ walk[t].visited[i] = walk[t].visited[j]


\* C10: on a fixed graph and without a stop request every walk ends; it
\* records at most |E| + 1 nodes, and it ends at a node without outgoing
\* edge or on drawing an edge it has taken.
C10_WalkTerminates ==
    /\ [](\A t \in WalkIds :
            /\ Len(walk[t].visited) <= Cardinality(DOMAIN G.w) + 1
            /\ walk[t].pc = "done" => walk[t].reason \in {"deadend", "cycle"})
    /\ \A t \in WalkIds : (walk[t].pc = "begin") ~> (walk[t].pc = "done")

\* a walk took every edge of a graph of three edges and ended at a dead end
C10_Witness ==
    \E t \in WalkIds :
        /\ walk[t].pc = "done"
        /\ walk[t].reason = "deadend"
        /\ Cardinality(DOMAIN G.w) >= 3
        /\ Len(walk[t].visited) = Cardinality(DOMAIN G.w) + 1

====
